---- MODULE Spec2Model ----
(***************************************************************************)
(* Model of the qs incremental indexer (crates/qs-core/src/index.rs) with  *)
(* the vector store adapter (storage.rs) and the file manifest             *)
(* (.qs/files.json).                                                       *)
(*                                                                         *)
(* The working tree holds the files PathSet.  A file is absent or holds a  *)
(* content; a content is an abstract integer c that stands for a byte      *)
(* string: its Blake3 hash is injective in c, ChunkCount(c) is the number  *)
(* of chunks extract_chunks yields for it, FileLen(c) is its size.         *)
(* One `qs index` command (cmd_index) is a run: Indexer::new, then         *)
(* Indexer::index step by step (one step per iteration of the scan loop    *)
(* and of the process loop, then the manifest save, then the flush).       *)
(* Files change only between runs.  The shard applies an upsert or a       *)
(* delete when it is issued and keeps it when the process ends; an upsert  *)
(* that fails stores nothing.                                              *)
(*                                                                         *)
(* The library functions the indexer calls (chunk_text and extract_chunks  *)
(* of extract.rs, the syntax-tree walk and from_extension of parse.rs,     *)
(* should_index, find_qs_root) are operators computed as the source        *)
(* computes them.  Each has a specification of its own (SpecChunk,         *)
(* SpecTree, SpecFilter, SpecFind, SpecLang) that draws its arguments from *)
(* bounded sets and applies it, the indexer staying as `qs init` left it.  *)
(* SpecChunkTextLoop follows chunk_text one loop iteration at a time, for  *)
(* chunk sizes from 0 on; SpecConcurrent runs two `qs index` processes on  *)
(* one repository; SpecSubPath runs `qs index` on a sub-path, one command  *)
(* at a time, a command possibly killed; SpecPrint applies print_result of *)
(* the command line to a stored payload and the file as it is now.         *)
(***************************************************************************)
EXTENDS Integers, Sequences, FiniteSets, TLC

(* ---------------------------- bounds ----------------------------------- *)
\* text files of the working tree are the paths 1..NumPaths
NumPaths == 2
\* contents 0..MaxChunks split into 0..MaxChunks chunks
MaxChunks == 2
\* a run starts only while every id it can allocate stays below MaxId
MaxId == 6

(* ------------------------ program constants ---------------------------- *)
DEFAULT_MAX_FILE_SIZE == 1048576

(* ------------------------- the working tree ---------------------------- *)
\* path 0 is a file the extension filter rejects under the default Config,
\* 1..NumPaths are sources
PathSet == 0..NumPaths
Absent == -1
\* the content MaxChunks + 1 is one byte over the size limit
Contents == 0..(MaxChunks + 1)

Ext(p) == IF p = 0 THEN "png" ELSE "rs"

TEXT_EXTENSIONS ==
  {"txt", "md", "rst", "org", "adoc",
   "rs", "py", "js", "ts", "jsx", "tsx", "go", "java", "c", "cpp", "h", "hpp",
   "cs", "rb", "php", "swift", "kt", "scala", "hs", "ml", "ex", "exs", "erl",
   "clj", "cljs", "lisp", "scm", "lua", "r", "jl", "nim", "zig", "v", "d",
   "html", "htm", "css", "scss", "sass", "less", "vue", "svelte",
   "json", "yaml", "yml", "toml", "xml", "ini", "cfg", "conf",
   "sh", "bash", "zsh", "fish", "ps1", "bat", "cmd",
   "csv", "sql",
   "tex", "bib"}

\* str::to_lowercase on the extensions of the model: the spellings with an
\* upper-case letter are listed, every other extension used is lower-case
to_lowercase(s) ==
  CASE s = "RS" -> "rs"
    [] s = "Rs" -> "rs"
    [] s = "PY" -> "py"
    [] s = "PYI" -> "pyi"
    [] s = "TXT" -> "txt"
    [] s = "Md" -> "md"
    [] s = "PNG" -> "png"
    [] s = "HH" -> "hh"
    [] OTHER -> s

\* TEXT_EXTENSIONS.contains(&ext.to_lowercase().as_str())
is_text_extension(ext) == to_lowercase(ext) \in TEXT_EXTENSIONS

\* Config: the two extension lists; a Vec<String> that is only searched is
\* modelled by the set of its elements
Config(include_extensions, exclude_extensions) ==
  [include_extensions |-> include_extensions, exclude_extensions |-> exclude_extensions]

\* Config::default()
ConfigDefault == Config({}, {})

\* list.iter().any(|e| e.to_lowercase() == ext)
AnyLowercaseIs(list, ext) == \E e \in list : to_lowercase(e) = ext

\* the include list consulted before the exclude list
should_index_include_first(ext, config) ==
  LET e == to_lowercase(ext)
  IN IF config.include_extensions # {} THEN AnyLowercaseIs(config.include_extensions, e)
     ELSE IF AnyLowercaseIs(config.exclude_extensions, e) THEN FALSE
     ELSE is_text_extension(e)

\* extract.rs should_index; ext is path.extension(), "" when the path has none
should_index(ext, config) ==
  LET e == to_lowercase(ext)
  IN IF AnyLowercaseIs(config.exclude_extensions, e) THEN FALSE
     ELSE IF config.include_extensions # {} THEN AnyLowercaseIs(config.include_extensions, e)
     ELSE is_text_extension(e)

\* metadata.len(): the empty file has 0 bytes, the content MaxChunks is a
\* file of exactly max_file_size bytes, MaxChunks + 1 is one byte larger
FileLen(c) == IF c = 0 THEN 0 ELSE DEFAULT_MAX_FILE_SIZE - MaxChunks + c

\* blake3::hash(&content).to_hex(): injective on the modelled contents
Blake3(c) == c

\* one chunk made of the empty text
ChunkCountNeverZero(c) == IF c = 0 THEN 1 ELSE IF c <= MaxChunks THEN c ELSE MaxChunks

\* extract_chunks(path, text, ...).len() for the text of content c
ChunkCount(c) == IF c <= MaxChunks THEN c ELSE MaxChunks

(* --------------------------- the manifest ------------------------------ *)
NoHash == -1
\* a path without FileMetadata in FileIndex.files
NoEntry == [hash |-> NoHash, chunk_count |-> 0, start_id |-> 0]

FileMetadata(hash, chunk_count, start_id) == [hash |-> hash, chunk_count |-> chunk_count, start_id |-> start_id]

\* FileIndex::default()
FileIndexDefault == [files |-> [p \in PathSet |-> NoEntry], next_id |-> 0]

(* ---------------------------- the store -------------------------------- *)
Ids == 0..(MaxId - 1)
NoPoint == [path |-> -1, chunk_index |-> 0, file_hash |-> NoHash]

ChunkPayload(path, chunk_index, file_hash) == [path |-> path, chunk_index |-> chunk_index, file_hash |-> file_hash]

\* the points stored one id further up
StorageUpsertFromOne(st, path, hash, start_id, n) ==
  [i \in DOMAIN st |-> IF i > start_id /\ i <= start_id + n THEN ChunkPayload(path, i - start_id - 1, hash) ELSE st[i]]

\* Storage::upsert of the points start_id .. start_id + n - 1 of one file
StorageUpsert(st, path, hash, start_id, n) ==
  [i \in DOMAIN st |-> IF i >= start_id /\ i < start_id + n THEN ChunkPayload(path, i - start_id, hash) ELSE st[i]]

\* Storage::delete: ids that are not present are ignored
StorageDelete(st, ids) ==
  [i \in DOMAIN st |-> IF i \in ids THEN NoPoint ELSE st[i]]

\* Storage::count
StorageCount(st) == Cardinality({i \in DOMAIN st : st[i] # NoPoint})

(* ------------------- the pieces of Indexer::index ---------------------- *)
\* no id of the old range deleted
ids_to_delete_none(existing) == {}

\* the range cut one id short
ids_to_delete_short(existing) == {i \in Ids : i >= existing.start_id /\ i < existing.start_id + existing.chunk_count - 1}

\* the range taken with its upper end included
ids_to_delete_inclusive(existing) == {i \in Ids : i >= existing.start_id /\ i <= existing.start_id + existing.chunk_count}

\* (existing.start_id .. existing.start_id + existing.chunk_count).collect()
ids_to_delete(existing) == {i \in Ids : i >= existing.start_id /\ i < existing.start_id + existing.chunk_count}

\* the limit itself taken as too big
ExceedsMaxFileSizeInclusive(len, max_file_size) == len >= max_file_size

\* metadata.len() > self.config.max_file_size
ExceedsMaxFileSize(len, max_file_size) == len > max_file_size

\* existing.hash == hash
HashUnchanged(existing, hash) == existing.hash = hash

\* next_id left where it was
NextIdNotAdvanced(start_id, n) == start_id

\* self.file_index.next_id = start_id + chunks.len()
NextIdAfter(start_id, n) == start_id + n

\* chunks_created counting files instead of chunks
ChunksCreatedPerFile(created, n) == created + 1

\* stats.chunks_created += chunk_count
ChunksCreatedAfter(created, n) == created + n

\* the failed file counted as indexed
FilesSkippedAsIndexed(st) == [st EXCEPT !.files_indexed = @ + 1]

\* Err(e) of index_file: stats.files_skipped += 1
FilesSkippedAfter(st) == [st EXCEPT !.files_skipped = @ + 1]

IndexStatsDefault == [files_scanned |-> 0, files_indexed |-> 0, files_skipped |-> 0, files_unchanged |-> 0, chunks_created |-> 0]

\* the walker yields the files that exist, in path order
RECURSIVE WalkFrom(_, _)
WalkFrom(tree, p) ==
  IF p > NumPaths THEN <<>>
  ELSE IF tree[p] # Absent THEN <<p>> \o WalkFrom(tree, p + 1)
  ELSE WalkFrom(tree, p + 1)

Walk(tree) == WalkFrom(tree, 0)

NoOp == [op |-> "none", path |-> -1]

VARIABLES
  fs,             \* working tree: path -> Absent or a content
  disk,           \* .qs/files.json
  file_index,     \* Indexer.file_index of the latest Indexer
  store,          \* the shard: id -> payload or NoPoint
  pc,             \* "idle", "scan", "process", "save", "flush", "done"
  walk,           \* entries the walker has still to yield
  files_to_index, \* the queue of (path, hash)
  stats,          \* IndexStats of the run
  result,         \* "none", "ok" (Ok(stats)) or "err" (Err(e))
  fatal,          \* the failure of the run that is not the failure of one file: "none", "walk", "metadata", "delete", "save", "flush"
  old_index,      \* history: the manifest the run loaded
  last,           \* history: the step just taken and the path it was about
  issued,         \* history: the paths for which the run has issued an upsert or a delete
  interrupted,    \* history: the paths with mutations issued by runs that ended before the save, no file changed since
  failed,         \* history: a file of the run has failed (read, extract, embed, upsert)
  clean,          \* history: the previous command was a run that returned Ok with no failed file, and no file changed since
  second,         \* history: the run started in a clean state
  call,           \* the library function applied on its own, and how far it is
  arg,            \* its arguments
  local,          \* its local variables
  ret             \* its result

\* the variables of a library function applied on its own
pure == <<call, arg, local, ret>>

vars == <<fs, disk, file_index, store, pc, walk, files_to_index, stats, result, fatal, old_index, last, issued, interrupted, failed, clean, second, pure>>

\* the indexer before the first command
IndexerInit ==
  /\ fs = [p \in PathSet |-> Absent]
  /\ disk = FileIndexDefault
  /\ file_index = FileIndexDefault
  /\ store = [i \in Ids |-> NoPoint]
  /\ pc = "idle"
  /\ walk = <<>>
  /\ files_to_index = <<>>
  /\ stats = IndexStatsDefault
  /\ result = "none"
  /\ fatal = "none"
  /\ old_index = FileIndexDefault
  /\ last = NoOp
  /\ issued = {}
  /\ interrupted = {}
  /\ failed = FALSE
  /\ clean = FALSE
  /\ second = FALSE

\* the variables of the indexer
indexer == <<fs, disk, file_index, store, pc, walk, files_to_index, stats, result, fatal, old_index, last, issued, interrupted, failed, clean, second>>

Init ==
  /\ IndexerInit
  /\ call = "none"
  /\ arg = <<>>
  /\ local = <<>>
  /\ ret = <<>>

(* ------------------------ edits between runs --------------------------- *)
\* a file that the extension filter rejects is never read: one content is enough
ContentsFor(p) == IF should_index(Ext(p), ConfigDefault) THEN Contents ELSE {1}

WriteFile(p, c) ==
  /\ pc = "idle"
  /\ c \in ContentsFor(p)
  /\ fs[p] # c
  /\ fs' = [fs EXCEPT ![p] = c]
  /\ clean' = FALSE
  /\ interrupted' = {}
  /\ UNCHANGED <<disk, file_index, store, pc, walk, files_to_index, stats, result, fatal, old_index, last, issued, failed, second, pure>>

RemoveFile(p) ==
  /\ pc = "idle"
  /\ fs[p] # Absent
  /\ fs' = [fs EXCEPT ![p] = Absent]
  /\ clean' = FALSE
  /\ interrupted' = {}
  /\ UNCHANGED <<disk, file_index, store, pc, walk, files_to_index, stats, result, fatal, old_index, last, issued, failed, second, pure>>

(* ------------------------------ a run ---------------------------------- *)
RECURSIVE SumChunks(_, _)
SumChunks(tree, p) ==
  IF p > NumPaths THEN 0
  ELSE (IF tree[p] = Absent THEN 0 ELSE ChunkCount(tree[p])) + SumChunks(tree, p + 1)

\* the save taken as soon as the walker is exhausted, the queue unprocessed
PcAfterSaveEarly(w, q) == IF w # <<>> THEN "scan" ELSE "save"

\* the loop the run is in once the walker has w left and the queue is q
PcAfter(w, q) == IF w # <<>> THEN "scan" ELSE IF q # <<>> THEN "process" ELSE "save"

\* FileIndex::load
FileIndexLoad(d) == d

\* Indexer::new(root), then index up to the first entry of `for entry in
\* walker.flatten()`, the walker yielding the entries w
StartRun(w, f) ==
  /\ pc = "idle"
  /\ file_index' = FileIndexLoad(disk)
  /\ old_index' = disk
  /\ walk' = w
  /\ files_to_index' = <<>>
  /\ stats' = IndexStatsDefault
  /\ pc' = PcAfter(walk', <<>>)
  /\ result' = "none"
  /\ fatal' = f
  /\ last' = [op |-> "new", path |-> -1]
  /\ issued' = {}
  /\ failed' = FALSE
  /\ second' = clean
  /\ UNCHANGED <<fs, disk, store, clean, interrupted, pure>>

\* cmd_index: Indexer::new(root), then index(None)
CmdIndex ==
  /\ disk.next_id + SumChunks(fs, 0) <= MaxId
  /\ StartRun(Walk(fs), "none")

\* the entries left of a walker that cannot open its start path: the one
\* Err it yields is dropped by flatten()
FlattenWalkErr == <<>>

\* cmd_index with a start path that does not exist or cannot be read
CmdIndexWalkErr == StartRun(FlattenWalkErr, "walk")

\* every scan step counts the entry in files_scanned and consumes it
Scanned(p) ==
  /\ pc = "scan"
  /\ walk # <<>>
  /\ p = Head(walk)
  /\ walk' = Tail(walk)

\* the skipped entry left out of files_scanned
SkipUnscanned(st) == [st EXCEPT !.files_skipped = @ + 1]

\* stats.files_scanned += 1; ...; stats.files_skipped += 1; continue
Skip(st) == [st EXCEPT !.files_scanned = @ + 1, !.files_skipped = @ + 1]

\* !should_index(path, config): files_skipped += 1; continue
ScanNotIndexable ==
  \E p \in PathSet :
    /\ Scanned(p)
    /\ ~should_index(Ext(p), ConfigDefault)
    /\ stats' = Skip(stats)
    /\ pc' = PcAfter(walk', files_to_index)
    /\ last' = [op |-> "filtered", path |-> p]
    /\ UNCHANGED <<fs, disk, file_index, store, files_to_index, result, fatal, old_index, issued, failed, clean, second, interrupted, pure>>

\* std::fs::metadata(path)? fails: index returns Err
ScanMetadataErr ==
  \E p \in PathSet :
    /\ Scanned(p)
    /\ should_index(Ext(p), ConfigDefault)
    /\ stats' = [stats EXCEPT !.files_scanned = @ + 1]
    /\ pc' = "done"
    /\ result' = "err"
    /\ fatal' = "metadata"
    /\ failed' = TRUE
    /\ last' = [op |-> "metadata_err", path |-> p]
    /\ UNCHANGED <<fs, disk, file_index, store, files_to_index, old_index, issued, clean, second, interrupted, pure>>

\* metadata.len() > self.config.max_file_size
ScanTooBig ==
  \E p \in PathSet :
    /\ Scanned(p)
    /\ should_index(Ext(p), ConfigDefault)
    /\ ExceedsMaxFileSize(FileLen(fs[p]), DEFAULT_MAX_FILE_SIZE)
    /\ stats' = Skip(stats)
    /\ pc' = PcAfter(walk', files_to_index)
    /\ last' = [op |-> "too_big", path |-> p]
    /\ UNCHANGED <<fs, disk, file_index, store, files_to_index, result, fatal, old_index, issued, failed, clean, second, interrupted, pure>>

\* std::fs::read(path) fails
ScanReadErr ==
  \E p \in PathSet :
    /\ Scanned(p)
    /\ should_index(Ext(p), ConfigDefault)
    /\ ~ExceedsMaxFileSize(FileLen(fs[p]), DEFAULT_MAX_FILE_SIZE)
    /\ stats' = Skip(stats)
    /\ pc' = PcAfter(walk', files_to_index)
    /\ failed' = TRUE
    /\ last' = [op |-> "read_err", path |-> p]
    /\ UNCHANGED <<fs, disk, file_index, store, files_to_index, result, fatal, old_index, issued, clean, second, interrupted, pure>>

\* the file passes the filters and its content is read and hashed
Hashed(p) ==
  /\ Scanned(p)
  /\ should_index(Ext(p), ConfigDefault)
  /\ ~ExceedsMaxFileSize(FileLen(fs[p]), DEFAULT_MAX_FILE_SIZE)

\* the manifest has the path with the same hash
ScanUnchanged ==
  \E p \in PathSet :
    /\ Hashed(p)
    /\ file_index.files[p] # NoEntry
    /\ HashUnchanged(file_index.files[p], Blake3(fs[p]))
    /\ stats' = [stats EXCEPT !.files_scanned = @ + 1, !.files_unchanged = @ + 1]
    /\ pc' = PcAfter(walk', files_to_index)
    /\ last' = [op |-> "unchanged", path |-> p]
    /\ UNCHANGED <<fs, disk, file_index, store, files_to_index, result, fatal, old_index, issued, failed, clean, second, interrupted, pure>>

\* the manifest has the path with another hash: delete the old ids, queue
ScanChanged ==
  \E p \in PathSet :
    /\ Hashed(p)
    /\ file_index.files[p] # NoEntry
    /\ ~HashUnchanged(file_index.files[p], Blake3(fs[p]))
    /\ store' = StorageDelete(store, ids_to_delete(file_index.files[p]))
    /\ issued' = issued \cup {p}
    /\ files_to_index' = Append(files_to_index, <<p, Blake3(fs[p])>>)
    /\ stats' = [stats EXCEPT !.files_scanned = @ + 1]
    /\ pc' = PcAfter(walk', files_to_index')
    /\ last' = [op |-> "changed", path |-> p]
    /\ UNCHANGED <<fs, disk, file_index, result, fatal, old_index, failed, clean, second, interrupted, pure>>

\* self.storage.delete(ids_to_delete)? fails: index returns Err
ScanDeleteErr ==
  \E p \in PathSet :
    /\ Hashed(p)
    /\ file_index.files[p] # NoEntry
    /\ ~HashUnchanged(file_index.files[p], Blake3(fs[p]))
    /\ stats' = [stats EXCEPT !.files_scanned = @ + 1]
    /\ pc' = "done"
    /\ result' = "err"
    /\ fatal' = "delete"
    /\ last' = [op |-> "delete_err", path |-> p]
    /\ UNCHANGED <<fs, disk, file_index, store, files_to_index, old_index, issued, failed, clean, second, interrupted, pure>>

\* the manifest does not have the path: queue
ScanNew ==
  \E p \in PathSet :
    /\ Hashed(p)
    /\ file_index.files[p] = NoEntry
    /\ files_to_index' = Append(files_to_index, <<p, Blake3(fs[p])>>)
    /\ stats' = [stats EXCEPT !.files_scanned = @ + 1]
    /\ pc' = PcAfter(walk', files_to_index')
    /\ last' = [op |-> "new_file", path |-> p]
    /\ UNCHANGED <<fs, disk, file_index, store, result, fatal, old_index, issued, failed, clean, second, interrupted, pure>>

(* ---------------------- Indexer::index_file ---------------------------- *)
\* the process loop takes the next queued (path, hash)
Dequeued(p, h) ==
  /\ pc = "process"
  /\ files_to_index # <<>>
  /\ p = Head(files_to_index)[1]
  /\ h = Head(files_to_index)[2]
  /\ files_to_index' = Tail(files_to_index)
  /\ pc' = PcAfter(<<>>, files_to_index')

\* Err(e) of index_file: warn, files_skipped += 1
\* (the steps after chunking are reached only with at least one chunk)
IndexFileErr(op, min_chunks) ==
  \E p \in PathSet, h \in Contents :
    /\ Dequeued(p, h)
    /\ ChunkCount(fs[p]) >= min_chunks
    /\ stats' = FilesSkippedAfter(stats)
    /\ failed' = TRUE
    /\ last' = [op |-> op, path |-> p]
    /\ UNCHANGED <<fs, disk, file_index, store, walk, result, fatal, old_index, issued, clean, second, interrupted, pure>>

\* extract::extract_text(path)? fails (unreadable, or not valid UTF-8)
IndexFileExtractErr == IndexFileErr("extract_err", 0)

\* self.embedder.embed_batch(&texts)? fails
IndexFileEmbedErr == IndexFileErr("embed_err", 1)

\* self.storage.upsert(points)? fails
IndexFileUpsertErr == IndexFileErr("upsert_err", 1)

\* text.is_empty() or chunks.is_empty(): return Ok(0)
IndexFileEmpty ==
  \E p \in PathSet, h \in Contents :
    /\ Dequeued(p, h)
    /\ ChunkCount(fs[p]) = 0
    /\ stats' = [stats EXCEPT !.files_indexed = @ + 1, !.chunks_created = ChunksCreatedAfter(@, 0)]
    /\ last' = [op |-> "empty", path |-> p]
    /\ UNCHANGED <<fs, disk, file_index, store, walk, result, fatal, old_index, issued, failed, clean, second, interrupted, pure>>

\* the file is chunked, embedded, upserted and entered in the manifest
IndexFileOk ==
  \E p \in PathSet, h \in Contents :
    /\ Dequeued(p, h)
    /\ ChunkCount(fs[p]) > 0
    /\ LET n == ChunkCount(fs[p])
           start_id == file_index.next_id
       IN /\ store' = StorageUpsert(store, p, h, start_id, n)
          /\ file_index' = [files |-> [file_index.files EXCEPT ![p] = FileMetadata(h, n, start_id)],
                            next_id |-> NextIdAfter(start_id, n)]
          /\ stats' = [stats EXCEPT !.files_indexed = @ + 1, !.chunks_created = ChunksCreatedAfter(@, n)]
    /\ issued' = issued \cup {p}
    /\ last' = [op |-> "indexed", path |-> p]
    /\ UNCHANGED <<fs, disk, walk, result, fatal, old_index, failed, clean, second, interrupted, pure>>

(* ------------------- the end of Indexer::index ------------------------- *)
\* the entries written, next_id left as it is on disk
FileIndexSaveEntriesOnly(fi) == [fi EXCEPT !.next_id = disk.next_id]

\* FileIndex::save
FileIndexSave(fi) == fi

\* self.file_index.save(&self.root)?
SaveOk ==
  /\ pc = "save"
  /\ disk' = FileIndexSave(file_index)
  /\ pc' = "flush"
  /\ last' = [op |-> "saved", path |-> -1]
  /\ UNCHANGED <<fs, file_index, store, walk, files_to_index, stats, result, fatal, old_index, issued, failed, clean, second, interrupted, pure>>

\* the save fails: index returns Err, files.json keeps the old manifest
SaveErr ==
  /\ pc = "save"
  /\ pc' = "done"
  /\ result' = "err"
  /\ fatal' = "save"
  /\ last' = [op |-> "save_err", path |-> -1]
  /\ UNCHANGED <<fs, disk, file_index, store, walk, files_to_index, stats, old_index, issued, failed, clean, second, interrupted, pure>>

\* self.storage.flush(); Ok(stats)
Flush ==
  /\ pc = "flush"
  /\ pc' = "done"
  /\ result' = "ok"
  /\ last' = [op |-> "flushed", path |-> -1]
  /\ UNCHANGED <<fs, disk, file_index, store, walk, files_to_index, stats, fatal, old_index, issued, failed, clean, second, interrupted, pure>>

\* the flush of the shard fails: Storage::flush returns (), so the statement
\* `self.storage.flush();` has nothing to propagate and Ok(stats) follows
FlushErr ==
  /\ pc = "flush"
  /\ pc' = "done"
  /\ result' = "ok"
  /\ fatal' = "flush"
  /\ last' = [op |-> "flush_err", path |-> -1]
  /\ UNCHANGED <<fs, disk, file_index, store, walk, files_to_index, stats, old_index, issued, failed, clean, second, interrupted, pure>>

\* what is left of a run once the process has ended
RunOver(ok, saved) ==
  /\ pc' = "idle"
  /\ interrupted' = IF saved THEN {} ELSE interrupted \cup issued
  /\ walk' = <<>>
  /\ files_to_index' = <<>>
  /\ stats' = IndexStatsDefault
  /\ result' = "none"
  /\ fatal' = "none"
  /\ old_index' = disk
  /\ last' = NoOp
  /\ issued' = {}
  /\ failed' = FALSE
  /\ second' = FALSE
  /\ clean' = ok
  /\ UNCHANGED <<fs, disk, file_index, store, pure>>

\* cmd_index prints the stats or the error and the process exits
Return ==
  /\ pc = "done"
  /\ RunOver(result = "ok" /\ ~failed /\ fatal = "none", result = "ok" /\ fatal # "walk")

\* the process is killed before the save; the store keeps the mutations
\* issued so far, files.json is what the last save wrote (a kill after the
\* save leaves the files of a completed run)
Kill ==
  /\ pc \in {"scan", "process", "save"}
  /\ RunOver(FALSE, FALSE)

Next ==
  \/ \E p \in PathSet, c \in Contents : WriteFile(p, c)
  \/ \E p \in PathSet : RemoveFile(p)
  \/ CmdIndex
  \/ CmdIndexWalkErr
  \/ ScanNotIndexable
  \/ ScanMetadataErr
  \/ ScanTooBig
  \/ ScanReadErr
  \/ ScanUnchanged
  \/ ScanChanged
  \/ ScanDeleteErr
  \/ ScanNew
  \/ IndexFileExtractErr
  \/ IndexFileEmpty
  \/ IndexFileEmbedErr
  \/ IndexFileUpsertErr
  \/ IndexFileOk
  \/ SaveOk
  \/ SaveErr
  \/ Flush
  \/ FlushErr
  \/ Return
  \/ Kill

Spec == Init /\ [][Next]_vars

\* the runs in which nothing is fatal: no kill, and the walk, metadata,
\* delete, save and flush succeed, so that every run returns Ok(stats)
NextReturning ==
  \/ \E p \in PathSet, c \in Contents : WriteFile(p, c)
  \/ \E p \in PathSet : RemoveFile(p)
  \/ CmdIndex
  \/ ScanNotIndexable
  \/ ScanTooBig
  \/ ScanReadErr
  \/ ScanUnchanged
  \/ ScanChanged
  \/ ScanNew
  \/ IndexFileExtractErr
  \/ IndexFileEmpty
  \/ IndexFileEmbedErr
  \/ IndexFileUpsertErr
  \/ IndexFileOk
  \/ SaveOk
  \/ Flush
  \/ Return

SpecReturning == Init /\ [][NextReturning]_vars

TypeOK ==
  /\ fs \in [PathSet -> {Absent} \cup Contents]
  /\ pc \in {"idle", "scan", "process", "save", "flush", "done"}
  /\ result \in {"none", "ok", "err"}
  /\ fatal \in {"none", "walk", "metadata", "delete", "save", "flush"}
  /\ file_index.next_id \in 0..MaxId
  /\ disk.next_id \in 0..MaxId

(* =================== the library functions ============================= *)
(* A text is a sequence of bytes: 10 is '\n', 97 stands for any other      *)
(* one-byte character, 195 169 is a two-byte character.  Byte offsets are  *)
(* counted from 0 as in the source; text[s..e] is SubSeq(text, s + 1, e).  *)

\* lengths of the texts handed to the chunkers
MaxLen == 5
\* chunk_size ranges over 1..MaxChunkSize (from 0 in SpecChunkTextLoop)
MaxChunkSize == 3
\* overlap ranges over 0..MaxOverlap
MaxOverlap == 3
\* definition nodes the syntax tree of a text can have
MaxNodes == 2

Min(a, b) == IF a < b THEN a ELSE b

Max(S) == CHOOSE x \in S : \A y \in S : y <= x

Bytes == {10, 97, 195, 169}

\* str: the byte strings that are valid UTF-8
Utf8(text) ==
  \A i \in 1..Len(text) :
    /\ text[i] = 195 => (i < Len(text) /\ text[i + 1] = 169)
    /\ text[i] = 169 => (i > 1 /\ text[i - 1] = 195)

Texts(n) == UNION {{t \in [1..k -> Bytes] : Utf8(t)} : k \in 0..n}

\* str::is_char_boundary: the byte at i is not a continuation byte
is_char_boundary(text, i) ==
  \/ i = 0
  \/ i = Len(text)
  \/ (i < Len(text) /\ text[i + 1] \notin 128..191)

\* text[..e].matches('\n').count()
Newlines(text, e) == Cardinality({i \in 1..e : text[i] = 10})

\* source.trim().is_empty(): '\n' is the whitespace of the modelled texts
TrimIsEmpty(text) == \A i \in 1..Len(text) : text[i] = 10

\* a function that returned v, and one that panicked
Returned(v) == [panic |-> FALSE, chunks |-> v]
Panicked == [panic |-> TRUE, chunks |-> <<>>]

\* Chunk; start and end are not fields of Chunk: they record the byte range
\* of the file that text was sliced from
Chunk(text, s, e, start_line, end_line, index) ==
  [text |-> SubSeq(text, s + 1, e), start_line |-> start_line, end_line |-> end_line, index |-> index, start |-> s, end |-> e]

\* text[start_pos..end_pos].rfind('\n').map(|p| start_pos + p + 1).unwrap_or(end_pos)
BreakAtLine(text, start_pos, end_pos) ==
  LET ps == {p \in start_pos..(end_pos - 1) : text[p + 1] = 10}
  IN IF ps = {} THEN end_pos ELSE Max(ps) + 1

\* the overlap added instead of subtracted
NextCharPosForward(overlap, start_pos, chunk_end) ==
  IF overlap < chunk_end - start_pos THEN chunk_end + overlap ELSE chunk_end

\* the overlap dropped: the next chunk always starts where this one ends
NextCharPosNoOverlap(overlap, start_pos, chunk_end) == chunk_end

\* char_pos = if overlap < chunk_end - start_pos { chunk_end - overlap } else { chunk_end }
NextCharPos(overlap, start_pos, chunk_end) ==
  IF overlap < chunk_end - start_pos THEN chunk_end - overlap ELSE chunk_end

\* chunk_index += 1
NextChunkIndex(chunk_index) == chunk_index + 1

\* one iteration of the while loop of chunk_text, entered with char_pos <
\* text.len(): the slice panics off a character boundary; otherwise the
\* chunk is pushed, and either the loop breaks (chunk_end >= text.len()) or
\* char_pos and chunk_index are moved on
ChunkTextIteration(text, chunk_size, overlap, char_pos, chunk_index) ==
  LET start_pos == char_pos
      end_pos == Min(char_pos + chunk_size, Len(text))
      chunk_end == IF end_pos < Len(text) THEN BreakAtLine(text, start_pos, end_pos) ELSE end_pos
  IN [panic |-> ~(is_char_boundary(text, start_pos) /\ is_char_boundary(text, end_pos)),
      chunk |-> Chunk(text, start_pos, chunk_end, Newlines(text, start_pos) + 1, Newlines(text, chunk_end) + 1, chunk_index),
      break |-> chunk_end >= Len(text),
      char_pos |-> NextCharPos(overlap, start_pos, chunk_end),
      chunk_index |-> NextChunkIndex(chunk_index)]

\* the while loop of chunk_text from char_pos on, chunks being those pushed so far
RECURSIVE ChunkTextLoop(_, _, _, _, _, _)
ChunkTextLoop(text, chunk_size, overlap, char_pos, chunk_index, chunks) ==
  IF ~(char_pos < Len(text)) THEN Returned(chunks)
  ELSE
    LET it == ChunkTextIteration(text, chunk_size, overlap, char_pos, chunk_index)
    IN IF it.panic THEN Panicked
       ELSE IF it.break THEN Returned(Append(chunks, it.chunk))
       ELSE ChunkTextLoop(text, chunk_size, overlap, it.char_pos, it.chunk_index, Append(chunks, it.chunk))

\* extract.rs chunk_text
chunk_text(text, chunk_size, overlap) ==
  IF text = <<>> THEN Returned(<<>>) ELSE ChunkTextLoop(text, chunk_size, overlap, 0, 0, <<>>)

(* ------------------ extensions and languages --------------------------- *)
\* no grammar at all
NoLanguage == "None"

\* a grammar chosen for Markdown files too
from_extension_md(ext) ==
  LET e == to_lowercase(ext)
  IN CASE e \in {"rs", "md"} -> "Rust"
       [] e \in {"py", "pyi"} -> "Python"
       [] e \in {"js", "jsx", "mjs", "cjs"} -> "JavaScript"
       [] e \in {"ts", "tsx", "mts", "cts"} -> "TypeScript"
       [] e = "go" -> "Go"
       [] e = "java" -> "Java"
       [] e \in {"c", "h"} -> "C"
       [] e \in {"cpp", "cc", "cxx", "hpp", "hxx", "hh"} -> "Cpp"
       [] OTHER -> NoLanguage

\* CodeLanguage::from_extension, every language feature of the crate enabled
from_extension(ext) ==
  LET e == to_lowercase(ext)
  IN CASE e = "rs" -> "Rust"
       [] e \in {"py", "pyi"} -> "Python"
       [] e \in {"js", "jsx", "mjs", "cjs"} -> "JavaScript"
       [] e \in {"ts", "tsx", "mts", "cts"} -> "TypeScript"
       [] e = "go" -> "Go"
       [] e = "java" -> "Java"
       [] e \in {"c", "h"} -> "C"
       [] e \in {"cpp", "cc", "cxx", "hpp", "hxx", "hh"} -> "Cpp"
       [] OTHER -> NoLanguage

(* ------------------------- the chunkers -------------------------------- *)
\* what tree-sitter made of a source: no tree (set_language or parse gave
\* None), or a tree whose walk selects the definition nodes `nodes`, each a
\* byte range, in source order
NoTree == [ok |-> FALSE, nodes |-> <<>>]
Tree(nodes) == [ok |-> TRUE, nodes |-> nodes]

Node(start_byte, end_byte) == [start_byte |-> start_byte, end_byte |-> end_byte]

\* the byte offsets of a text that lie between characters
Boundaries(text) == {i \in 0..Len(text) : is_char_boundary(text, i)}

\* the non-empty ranges of a text that start and end between characters
NodesOf(text) == {n \in [start_byte : Boundaries(text), end_byte : Boundaries(text)] : n.start_byte < n.end_byte}

\* the sequences of at most k selected nodes: disjoint, in source order
NodeSeqs(text, k) ==
  UNION {{ns \in [1..j -> NodesOf(text)] : \A i \in 1..(j - 1) : ns[i].end_byte <= ns[i + 1].start_byte} : j \in 0..k}

\* parse.rs extract_chunks on a tree whose walk selects `nodes`
parse_extract_chunks(nodes, source) ==
  LET chunks == [i \in 1..Len(nodes) |->
                   Chunk(source, nodes[i].start_byte, nodes[i].end_byte,
                         Newlines(source, nodes[i].start_byte) + 1, Newlines(source, nodes[i].end_byte) + 1, i - 1)]
  IN IF chunks = <<>> /\ ~TrimIsEmpty(source)
     THEN <<Chunk(source, 0, Len(source), 1, Newlines(source, Len(source)) + 1, 0)>>
     ELSE chunks

None == [some |-> FALSE, chunks |-> <<>>]
Some(chunks) == [some |-> TRUE, chunks |-> chunks]

\* CodeParser::parse_file
parse_file(ext, source, tree) ==
  IF ext = "" \/ from_extension(ext) = NoLanguage \/ ~tree.ok THEN None
  ELSE Some(parse_extract_chunks(tree.nodes, source))

\* twice the size allowed before a chunk is split, taken as four times
SplitLimitLoose(chunk_size) == chunk_size * 4

\* chunk.text.len() > chunk_size * 2
SplitLimit(chunk_size) == chunk_size * 2

\* the index chunk_text or the parser gave, kept
PushedIndexKept(res, index) == index

\* index: result.len()
PushedIndex(res, index) == Len(res)

\* for mut sub in sub_chunks: the line numbers are moved to the parent's
\* place in the file, the index is the place in the result (and the recorded
\* byte range is moved from the parent's text to the file)
RECURSIVE PushSubChunks(_, _, _, _)
PushSubChunks(chunk, sub_chunks, j, res) ==
  IF j > Len(sub_chunks) THEN res
  ELSE
    LET sub == sub_chunks[j]
        start_line == sub.start_line + (chunk.start_line - 1)
        end_line == start_line + Newlines(sub.text, Len(sub.text))
    IN PushSubChunks(chunk, sub_chunks, j + 1,
                     Append(res, [sub EXCEPT !.start_line = start_line, !.end_line = end_line, !.index = PushedIndex(res, @),
                                             !.start = chunk.start + @, !.end = chunk.start + @]))

\* the loop of extract.rs extract_chunks over the chunks of the parser
RECURSIVE SplitLarge(_, _, _, _, _)
SplitLarge(chunks, i, chunk_size, overlap, res) ==
  IF i > Len(chunks) THEN Returned(res)
  ELSE
    LET chunk == chunks[i]
    IN IF Len(chunk.text) > SplitLimit(chunk_size)
       THEN LET sub == chunk_text(chunk.text, chunk_size, overlap)
            IN IF sub.panic THEN Panicked
               ELSE SplitLarge(chunks, i + 1, chunk_size, overlap, PushSubChunks(chunk, sub.chunks, 1, res))
       ELSE SplitLarge(chunks, i + 1, chunk_size, overlap, Append(res, [chunk EXCEPT !.index = PushedIndex(res, @)]))

\* extract.rs extract_chunks
extract_chunks(ext, text, chunk_size, overlap, tree) ==
  LET parsed == IF ext # "" /\ from_extension(ext) # NoLanguage THEN parse_file(ext, text, tree) ELSE None
      res == IF parsed.some THEN SplitLarge(parsed.chunks, 1, chunk_size, overlap, <<>>) ELSE Returned(<<>>)
  IN IF parsed.some /\ (res.panic \/ res.chunks # <<>>) THEN res
     ELSE chunk_text(text, chunk_size, overlap)

(* ------------- the chunkers applied to bounded inputs ------------------ *)
\* one extension with a grammar, one without
ChunkExts == {"rs", "txt"}

\* the trees tree-sitter can make of a text under an extension
TreesOf(ext, text) ==
  IF from_extension(ext) = NoLanguage THEN {NoTree}
  ELSE {NoTree} \cup {Tree(ns) : ns \in NodeSeqs(text, MaxNodes)}

ChunkInit ==
  /\ IndexerInit
  /\ call = "none"
  /\ \E ext \in ChunkExts, text \in Texts(MaxLen), chunk_size \in 1..MaxChunkSize, overlap \in 0..MaxOverlap :
       \E tree \in TreesOf(ext, text) :
         arg = [ext |-> ext, text |-> text, chunk_size |-> chunk_size, overlap |-> overlap, tree |-> tree]
  /\ local = <<>>
  /\ ret = <<>>

\* chunk_text(text, chunk_size, overlap); it takes neither a path nor a tree
CallChunkText ==
  /\ call = "none"
  /\ arg.ext = "txt"
  /\ call' = "chunk_text"
  /\ ret' = chunk_text(arg.text, arg.chunk_size, arg.overlap)
  /\ UNCHANGED <<indexer, arg, local>>

\* extract_chunks(path, text, chunk_size, overlap, parser)
CallExtractChunks ==
  /\ call = "none"
  /\ call' = "extract_chunks"
  /\ ret' = extract_chunks(arg.ext, arg.text, arg.chunk_size, arg.overlap, arg.tree)
  /\ UNCHANGED <<indexer, arg, local>>

NextChunk == CallChunkText \/ CallExtractChunks

SpecChunk == ChunkInit /\ [][NextChunk]_vars

(* ------------- chunk_text, one loop iteration at a time ---------------- *)
\* iterations after which a loop that has not ended is no longer followed
MaxIterations == 7

\* Config.chunk_size and Config.chunk_overlap are usize fields that
\* Config::load reads unchecked: 0 is a chunk_size the configuration can hold
ChunkTextLoopInit ==
  /\ IndexerInit
  /\ call = "none"
  /\ \E text \in Texts(MaxLen), chunk_size \in 0..MaxChunkSize, overlap \in 0..MaxOverlap :
       arg = [text |-> text, chunk_size |-> chunk_size, overlap |-> overlap]
  /\ local = <<>>
  /\ ret = <<>>

\* if text.is_empty() { return Vec::new(); }
ChunkTextEmpty ==
  /\ call = "none"
  /\ arg.text = <<>>
  /\ call' = "chunk_text"
  /\ ret' = Returned(<<>>)
  /\ UNCHANGED <<indexer, arg, local>>

\* let mut chunks = Vec::new(); let mut chunk_index = 0; let mut char_pos = 0;
ChunkTextEnter ==
  /\ call = "none"
  /\ arg.text # <<>>
  /\ call' = "while"
  /\ local' = [char_pos |-> 0, chunk_index |-> 0, chunks |-> <<>>]
  /\ UNCHANGED <<indexer, arg, ret>>

\* while char_pos < text.len() { ... }: one test of the condition and, when
\* it holds, one iteration
ChunkTextWhile ==
  /\ call = "while"
  /\ local.chunk_index < MaxIterations
  /\ IF ~(local.char_pos < Len(arg.text))
     THEN /\ call' = "chunk_text"
          /\ ret' = Returned(local.chunks)
          /\ UNCHANGED local
     ELSE LET it == ChunkTextIteration(arg.text, arg.chunk_size, arg.overlap, local.char_pos, local.chunk_index)
          IN IF it.panic
             THEN /\ call' = "chunk_text"
                  /\ ret' = Panicked
                  /\ UNCHANGED local
             ELSE IF it.break
             THEN /\ call' = "chunk_text"
                  /\ ret' = Returned(Append(local.chunks, it.chunk))
                  /\ local' = [local EXCEPT !.chunks = Append(@, it.chunk)]
             ELSE /\ call' = "while"
                  /\ local' = [char_pos |-> it.char_pos, chunk_index |-> it.chunk_index, chunks |-> Append(local.chunks, it.chunk)]
                  /\ UNCHANGED ret
  /\ UNCHANGED <<indexer, arg>>

NextChunkTextLoop == ChunkTextEmpty \/ ChunkTextEnter \/ ChunkTextWhile

SpecChunkTextLoop == ChunkTextLoopInit /\ [][NextChunkTextLoop]_vars

(* --------------------- the syntax-tree walk ---------------------------- *)
\* nodes a syntax tree has below its root
MaxTreeNodes == 5

\* the root node of a tree
Root == 0

\* the ancestors of node k, k included, the root excluded
RECURSIVE AncestorsOrSelf(_, _)
AncestorsOrSelf(parent, k) == IF k = Root THEN {} ELSE {k} \cup AncestorsOrSelf(parent, parent[k])

\* the syntax trees of n nodes: the nodes 1..n are numbered in source order
\* (a node comes before its children, these before its next sibling);
\* parent[k] is the node k lies in, def[k] says that k's kind is one of
\* lang.definition_kinds()
SyntaxTrees(n) ==
  {t \in [parent : [1..n -> 0..(n - 1)], def : [1..n -> BOOLEAN]] :
     \A k \in 1..n :
       /\ t.parent[k] < k
       /\ k > 1 => t.parent[k] \in {Root} \cup AncestorsOrSelf(t.parent, k - 1)}

\* node.children(&mut cursor): the children of node, in source order
RECURSIVE ChildrenFrom(_, _, _)
ChildrenFrom(tree, node, k) ==
  IF k > Len(tree.parent) THEN <<>>
  ELSE IF tree.parent[k] = node THEN <<k>> \o ChildrenFrom(tree, node, k + 1)
  ELSE ChildrenFrom(tree, node, k + 1)

Children(tree, node) == ChildrenFrom(tree, node, 1)

\* the walk going on into a definition node
DescendAlways(is_definition) == TRUE

\* the else branch of `if definition_kinds.contains(&kind)`: recurse into
\* the children of a node that is not a definition
Descend(is_definition) == ~is_definition

\* extract_chunks_recursive(node, ...): chunks is the vector, extended with
\* the nodes that are pushed
RECURSIVE extract_chunks_recursive(_, _, _)
RECURSIVE RecursiveLoop(_, _, _, _)
RecursiveLoop(tree, kids, i, chunks) ==
  IF i > Len(kids) THEN chunks
  ELSE
    LET child == kids[i]
        pushed == IF tree.def[child] THEN Append(chunks, child) ELSE chunks
    IN RecursiveLoop(tree, kids, i + 1,
                     IF Descend(tree.def[child]) THEN extract_chunks_recursive(tree, child, pushed) ELSE pushed)

extract_chunks_recursive(tree, node, chunks) == RecursiveLoop(tree, Children(tree, node), 1, chunks)

\* the loop of parse.rs extract_chunks over root.children
RECURSIVE TopLevelLoop(_, _, _, _)
TopLevelLoop(tree, kids, i, chunks) ==
  IF i > Len(kids) THEN chunks
  ELSE TopLevelLoop(tree, kids, i + 1, IF tree.def[kids[i]] THEN Append(chunks, kids[i]) ELSE chunks)

\* the nodes parse.rs extract_chunks makes chunks of, in the order pushed
DefinitionNodes(tree) ==
  LET chunks == TopLevelLoop(tree, Children(tree, Root), 1, <<>>)
  IN IF chunks = <<>> THEN extract_chunks_recursive(tree, Root, chunks) ELSE chunks

TreeInit ==
  /\ IndexerInit
  /\ call = "none"
  /\ \E n \in 0..MaxTreeNodes : \E tree \in SyntaxTrees(n) : arg = [tree |-> tree]
  /\ local = <<>>
  /\ ret = <<>>

\* parse.rs extract_chunks(&tree, source, lang), up to the nodes selected
CallDefinitionNodes ==
  /\ call = "none"
  /\ call' = "definition_nodes"
  /\ ret' = DefinitionNodes(arg.tree)
  /\ UNCHANGED <<indexer, arg, local>>

NextTree == CallDefinitionNodes

SpecTree == TreeInit /\ [][NextTree]_vars

(* --------------------- the extension filter ---------------------------- *)
\* the extensions of the paths handed to should_index
FilterExts == {"rs", "RS", "Rs", "md", "Md", "png", "PNG", "txt", "TXT", "xyz", ""}

\* the strings the lists of the configuration are made of
ConfigExts == {"rs", "RS", "png", "PNG", "Md", ""}

FilterInit ==
  /\ IndexerInit
  /\ call = "none"
  /\ \E ext \in FilterExts, include_extensions \in SUBSET ConfigExts, exclude_extensions \in SUBSET ConfigExts :
       arg = [ext |-> ext, config |-> Config(include_extensions, exclude_extensions)]
  /\ local = <<>>
  /\ ret = <<>>

\* should_index(path, config)
CallShouldIndex ==
  /\ call = "none"
  /\ call' = "should_index"
  /\ ret' = should_index(arg.ext, arg.config)
  /\ UNCHANGED <<indexer, arg, local>>

NextFilter == CallShouldIndex

SpecFilter == FilterInit /\ [][NextFilter]_vars

(* ------------------------- find_qs_root -------------------------------- *)
(* A path is the sequence of its components below "/".  The directories    *)
(* that exist are a chain /, /a, /a/a, ...; /b may be a symbolic link to   *)
(* one of them; some of the directories hold a .qs directory.              *)

\* components of the deepest path
MaxDepth == 2

Paths(n) == UNION {[1..k -> {"a", "b"}] : k \in 0..n}

\* the directories /, /a, ... down to depth k
Chain(k) == {[i \in 1..j |-> "a"] : j \in 0..k}

\* no symbolic link: the root is never one
NoLink == [from |-> <<>>, to |-> <<>>]

Worlds ==
  UNION {[dirs : {Chain(k)}, qs : SUBSET Chain(k), link : {NoLink} \cup [from : {<<"b">>}, to : Chain(k)]] : k \in 0..MaxDepth}

IsPrefix(a, b) == Len(a) <= Len(b) /\ SubSeq(b, 1, Len(a)) = a

\* the results of find_qs_root
Ok(path) == [kind |-> "Ok", path |-> path]
Err(e) == [kind |-> e, path |-> <<>>]

\* start.canonicalize(): symbolic links resolved; an error when the path
\* does not lead to anything that exists
canonicalize(start, world) ==
  LET resolved == IF world.link # NoLink /\ IsPrefix(world.link.from, start)
                  THEN world.link.to \o SubSeq(start, Len(world.link.from) + 1, Len(start))
                  ELSE start
  IN IF resolved \in world.dirs THEN Ok(resolved) ELSE Err("Io")

NoParent == [some |-> FALSE, path |-> <<>>]

\* a parent never found
parent_never(current) == NoParent

\* current.parent(): None at the filesystem root
parent(current) ==
  IF current = <<>> THEN NoParent ELSE [some |-> TRUE, path |-> SubSeq(current, 1, Len(current) - 1)]

\* current.join(QS_DIR).is_dir()
qs_path_is_dir(current, world) == current \in world.qs

FindInit ==
  /\ IndexerInit
  /\ call = "none"
  /\ \E start \in Paths(MaxDepth), world \in Worlds : arg = [start |-> start, world |-> world]
  /\ local = <<>>
  /\ ret = <<>>

\* let mut current = start.canonicalize()?
FindCanonicalize ==
  /\ call = "none"
  /\ LET c == canonicalize(arg.start, arg.world)
     IN IF c.kind = "Ok"
        THEN call' = "find_qs_root: loop" /\ local' = [current |-> c.path] /\ ret' = ret
        ELSE call' = "find_qs_root: returned" /\ local' = local /\ ret' = c
  /\ UNCHANGED <<indexer, arg>>

\* qs_path.is_dir(): return Ok(current)
FindFound ==
  /\ call = "find_qs_root: loop"
  /\ qs_path_is_dir(local.current, arg.world)
  /\ call' = "find_qs_root: returned"
  /\ ret' = Ok(local.current)
  /\ UNCHANGED <<indexer, arg, local>>

\* Some(parent) => current = parent
FindParent ==
  /\ call = "find_qs_root: loop"
  /\ ~qs_path_is_dir(local.current, arg.world)
  /\ parent(local.current).some
  /\ local' = [current |-> parent(local.current).path]
  /\ UNCHANGED <<indexer, call, arg, ret>>

\* None => return Err(QsError::NotInRepo)
FindNotInRepo ==
  /\ call = "find_qs_root: loop"
  /\ ~qs_path_is_dir(local.current, arg.world)
  /\ ~parent(local.current).some
  /\ call' = "find_qs_root: returned"
  /\ ret' = Err("NotInRepo")
  /\ UNCHANGED <<indexer, arg, local>>

NextFind == FindCanonicalize \/ FindFound \/ FindParent \/ FindNotInRepo

\* the function runs on until it returns
SpecFind == FindInit /\ [][NextFind]_vars /\ WF_vars(NextFind)

(* ------------------- language detection -------------------------------- *)
\* lengths of the texts chunked under every extension
MaxLangLen == 3

\* the extensions of the paths handed to from_extension and extract_chunks
LangExts ==
  {"rs", "py", "pyi", "js", "jsx", "mjs", "cjs", "ts", "tsx", "mts", "cts", "go", "java",
   "c", "h", "cpp", "cc", "cxx", "hpp", "hxx", "hh",
   "RS", "PY", "PYI", "HH",
   "txt", "TXT", "md", "Md", "json", "png", "xyz", ""}

LangInit ==
  /\ IndexerInit
  /\ call = "none"
  /\ \E ext \in LangExts, text \in Texts(MaxLangLen), chunk_size \in 1..MaxChunkSize, overlap \in 0..MaxOverlap :
       \E tree \in TreesOf(ext, text) :
         arg = [ext |-> ext, text |-> text, chunk_size |-> chunk_size, overlap |-> overlap, tree |-> tree]
  /\ local = <<>>
  /\ ret = <<>>

\* CodeLanguage::from_extension(ext); it takes the extension only
CallFromExtension ==
  /\ call = "none"
  /\ arg.text = <<>> /\ arg.chunk_size = 1 /\ arg.overlap = 0 /\ arg.tree = NoTree
  /\ call' = "from_extension"
  /\ ret' = from_extension(arg.ext)
  /\ UNCHANGED <<indexer, arg, local>>

NextLang == CallFromExtension \/ CallExtractChunks

SpecLang == LangInit /\ [][NextLang]_vars

(* ------------------ two `qs index` processes at once ------------------- *)
\* Two processes run cmd_index on the same repository.  They share the
\* working tree, .qs/files.json and the shard; each has the Indexer it
\* created, with the manifest it loaded then, in local[i].  Nothing fails
\* and no process is killed; files change only while both are idle.
Procs == {1, 2}

\* `qs index` commands followed per terminal
MaxRuns == 2

\* runs is history: the commands issued so far; start is the start path of
\* the run the process is in
IdleProc(runs) == [pc |-> "idle", file_index |-> FileIndexDefault, walk |-> <<>>, files_to_index |-> <<>>, stats |-> IndexStatsDefault, runs |-> runs, start |-> {}]

\* what the processes leave alone
parked == <<file_index, pc, walk, files_to_index, stats, result, fatal, old_index, last, issued, interrupted, failed, clean, second, call, arg, ret>>

ConcurrentInit ==
  /\ IndexerInit
  /\ call = "none"
  /\ arg = <<>>
  /\ local = [i \in Procs |-> IdleProc(0)]
  /\ ret = <<>>

\* an edit of the working tree between runs
ProcsWriteFile(p, c) ==
  /\ \A i \in Procs : local[i].pc = "idle"
  /\ c \in ContentsFor(p)
  /\ fs[p] # c
  /\ fs' = [fs EXCEPT ![p] = c]
  /\ UNCHANGED <<disk, store, local, parked>>

ProcsRemoveFile(p) ==
  /\ \A i \in Procs : local[i].pc = "idle"
  /\ fs[p] # Absent
  /\ fs' = [fs EXCEPT ![p] = Absent]
  /\ UNCHANGED <<disk, store, local, parked>>

\* the start paths of a run: the root (index(None)) or one file of the
\* tree (index(Some(path))), each given by the paths that lie under it
StartPaths == {PathSet} \cup {{p} : p \in PathSet}

\* the walker built on a start path yields the files under it
WalkUnder(tree, start) == SelectSeq(Walk(tree), LAMBDA p : p \in start)

\* cmd_index(path) of process i: Indexer::new(root) loads files.json,
\* index(path) builds the walker on root or on root.join(path)
ProcCmdIndex(i, start) ==
  /\ local[i].pc = "idle"
  /\ local[i].runs < MaxRuns
  /\ disk.next_id + SumChunks(fs, 0) <= MaxId
  /\ local' = [local EXCEPT ![i] = [pc |-> PcAfter(WalkUnder(fs, start), <<>>), file_index |-> FileIndexLoad(disk),
                                    walk |-> WalkUnder(fs, start), files_to_index |-> <<>>, stats |-> IndexStatsDefault,
                                    runs |-> local[i].runs + 1, start |-> start]]
  /\ UNCHANGED <<fs, disk, store, parked>>

\* one iteration of the scan loop of process i
ProcScan(i) ==
  /\ local[i].pc = "scan"
  /\ LET me == local[i]
         p == Head(me.walk)
         hash == Blake3(fs[p])
         existing == me.file_index.files[p]
         skipped == ~should_index(Ext(p), ConfigDefault) \/ ExceedsMaxFileSize(FileLen(fs[p]), DEFAULT_MAX_FILE_SIZE)
         unchanged == ~skipped /\ existing # NoEntry /\ HashUnchanged(existing, hash)
         changed == ~skipped /\ existing # NoEntry /\ ~HashUnchanged(existing, hash)
         queue == IF skipped \/ unchanged THEN me.files_to_index ELSE Append(me.files_to_index, <<p, hash>>)
     IN /\ store' = IF changed THEN StorageDelete(store, ids_to_delete(existing)) ELSE store
        /\ local' = [local EXCEPT ![i] = [me EXCEPT
                       !.walk = Tail(me.walk),
                       !.files_to_index = queue,
                       !.stats = IF skipped THEN Skip(me.stats)
                                 ELSE IF unchanged THEN [me.stats EXCEPT !.files_scanned = @ + 1, !.files_unchanged = @ + 1]
                                 ELSE [me.stats EXCEPT !.files_scanned = @ + 1],
                       !.pc = PcAfter(Tail(me.walk), queue)]]
  /\ UNCHANGED <<fs, disk, parked>>

\* one iteration of the process loop of process i: index_file
ProcIndexFile(i) ==
  /\ local[i].pc = "process"
  /\ LET me == local[i]
         p == Head(me.files_to_index)[1]
         h == Head(me.files_to_index)[2]
         n == ChunkCount(fs[p])
         start_id == me.file_index.next_id
     IN /\ store' = IF n = 0 THEN store ELSE StorageUpsert(store, p, h, start_id, n)
        /\ local' = [local EXCEPT ![i] = [me EXCEPT
                       !.files_to_index = Tail(me.files_to_index),
                       !.file_index = IF n = 0 THEN me.file_index
                                      ELSE [files |-> [me.file_index.files EXCEPT ![p] = FileMetadata(h, n, start_id)],
                                            next_id |-> NextIdAfter(start_id, n)],
                       !.stats = [me.stats EXCEPT !.files_indexed = @ + 1, !.chunks_created = ChunksCreatedAfter(@, n)],
                       !.pc = PcAfter(<<>>, Tail(me.files_to_index))]]
  /\ UNCHANGED <<fs, disk, parked>>

\* self.file_index.save(&self.root)? of process i: the whole manifest of
\* the process replaces files.json
ProcSave(i) ==
  /\ local[i].pc = "save"
  /\ disk' = FileIndexSave(local[i].file_index)
  /\ local' = [local EXCEPT ![i].pc = "flush"]
  /\ UNCHANGED <<fs, store, parked>>

\* self.storage.flush(); Ok(stats); cmd_index prints the stats and exits
ProcFlushReturn(i) ==
  /\ local[i].pc = "flush"
  /\ local' = [local EXCEPT ![i] = IdleProc(local[i].runs)]
  /\ UNCHANGED <<fs, disk, store, parked>>

NextConcurrent ==
  \/ \E p \in PathSet, c \in Contents : ProcsWriteFile(p, c)
  \/ \E p \in PathSet : ProcsRemoveFile(p)
  \/ \E i \in Procs, start \in StartPaths : ProcCmdIndex(i, start)
  \/ \E i \in Procs : ProcScan(i)
  \/ \E i \in Procs : ProcIndexFile(i)
  \/ \E i \in Procs : ProcSave(i)
  \/ \E i \in Procs : ProcFlushReturn(i)

SpecConcurrent == ConcurrentInit /\ [][NextConcurrent]_vars

(* ------------- runs on a sub-path, one command at a time --------------- *)
\* cmd_index(path) issued while no other `qs index` process is running
SeqCmdIndex(i, start) ==
  /\ \A j \in Procs : local[j].pc = "idle"
  /\ ProcCmdIndex(i, start)

\* process i is killed before the save; the store keeps the mutations
\* issued so far, files.json is what the last save wrote
ProcKill(i) ==
  /\ local[i].pc \in {"scan", "process", "save"}
  /\ local' = [local EXCEPT ![i] = IdleProc(local[i].runs)]
  /\ UNCHANGED <<fs, disk, store, parked>>

NextSubPath ==
  \/ \E p \in PathSet, c \in Contents : ProcsWriteFile(p, c)
  \/ \E p \in PathSet : ProcsRemoveFile(p)
  \/ \E i \in Procs, start \in StartPaths : SeqCmdIndex(i, start)
  \/ \E i \in Procs : ProcScan(i)
  \/ \E i \in Procs : ProcIndexFile(i)
  \/ \E i \in Procs : ProcSave(i)
  \/ \E i \in Procs : ProcFlushReturn(i)
  \/ \E i \in Procs : ProcKill(i)

SpecSubPath == ConcurrentInit /\ [][NextSubPath]_vars

(* ======================= the claims ==================================== *)
\* the ids [start_id, start_id + chunk_count) of a manifest entry
EntryIds(e) == e.start_id .. (e.start_id + e.chunk_count - 1)

\* the paths that have an entry in manifest m
Entries(m) == {p \in PathSet : m.files[p] # NoEntry}

RECURSIVE SumCountFrom(_, _)
SumCountFrom(m, p) == IF p > NumPaths THEN 0 ELSE m.files[p].chunk_count + SumCountFrom(m, p + 1)

\* the sum of chunk_count over the entries of m
SumCount(m) == SumCountFrom(m, 0)

\* id i holds a point of path p with hash h
Resolves(i, p, h) == i \in DOMAIN store /\ store[i].path = p /\ store[i].file_hash = h

Gone(i) == i \in DOMAIN store => store[i] = NoPoint

\* the run has issued an upsert or a delete
mutated == issued # {}

\* index has returned Ok(stats)
RunOk == pc = "done" /\ result = "ok"

\* C1: after a run that returns Ok, every id of every manifest entry is in
\* the store with the entry's path and hash, and the store holds at least
\* as many points as the entries count chunks.
C1_EntriesResolve ==
  RunOk =>
    /\ \A p \in Entries(disk) : \A i \in EntryIds(disk.files[p]) : Resolves(i, p, disk.files[p].hash)
    /\ StorageCount(store) >= SumCount(disk)

\* the id ranges of manifest m are pairwise disjoint and end at or before next_id
ManifestInv(m) ==
  /\ \A p \in Entries(m), q \in Entries(m) : p # q => EntryIds(m.files[p]) \cap EntryIds(m.files[q]) = {}
  /\ \A p \in Entries(m) : m.files[p].start_id + m.files[p].chunk_count <= m.next_id

\* C2: in every reachable state the id ranges of two distinct manifest
\* entries are disjoint and every range ends at or before next_id, in the
\* manifest in memory and in the manifest on disk.
C2_RangesDisjoint == ManifestInv(file_index) /\ ManifestInv(disk)

\* C2 witness: a saved manifest with two entries, one of them re-indexed
\* (an abandoned range lies below next_id)
C2_Witness ==
  /\ pc = "done"
  /\ Cardinality(Entries(disk)) >= 2
  /\ disk.next_id > SumCount(disk)

\* C3: whenever a run counts a file as unchanged, every id of its entry is
\* in the store with the entry's path and hash.
C3_UnchangedHasPoints ==
  last.op = "unchanged" =>
    \A i \in EntryIds(file_index.files[last.path]) : Resolves(i, last.path, file_index.files[last.path].hash)

\* C4: a run that follows a run that returned Ok, with no file changed in
\* between (and no file failing in either run), reports files_indexed = 0, chunks_created = 0 and files_unchanged
\* = the number of manifest entries, issues no upsert or delete, and leaves
\* the manifest as the first run saved it.
C4_SecondRunIdle ==
  (RunOk /\ second /\ ~failed /\ fatal = "none") =>
    /\ stats.files_indexed = 0
    /\ stats.chunks_created = 0
    /\ stats.files_unchanged = Cardinality(Entries(disk))
    /\ ~mutated
    /\ disk = old_index

\* the paths whose entry the run has replaced
Reindexed == {p \in PathSet : old_index.files[p] # NoEntry /\ file_index.files[p] # old_index.files[p]}

\* C5: once a run has re-indexed a file whose hash differed from its entry,
\* the new range is disjoint from the previous one and no id of the previous
\* range is in the store, up to and including the end of the run.
C5_ReindexFreshRange ==
  pc # "idle" =>
    \A p \in Reindexed :
      /\ EntryIds(file_index.files[p]) \cap EntryIds(old_index.files[p]) = {}
      /\ \A i \in EntryIds(old_index.files[p]) : Gone(i)

\* C5 witness: a run has returned Ok after re-indexing a file that had two chunks
C5_Witness == RunOk /\ \E p \in Reindexed : old_index.files[p].chunk_count >= 2

\* C6: next_id never decreases, neither the one held in memory nor the one
\* saved in files.json, over runs that succeed, skip files or are aborted.
C6_NextIdMonotonic ==
  [][file_index'.next_id >= file_index.next_id /\ disk'.next_id >= disk.next_id]_vars

\* C7: after a run that returns Ok, every point of the store has its id in
\* the range of exactly one manifest entry and no two points carry the same
\* (path, chunk_index).
C7_NoOrphanNoDuplicate ==
  RunOk =>
    /\ \A i \in Ids : store[i] # NoPoint => Cardinality({p \in Entries(disk) : i \in EntryIds(disk.files[p])}) = 1
    /\ \A i \in Ids, j \in Ids :
         (i # j /\ store[i] # NoPoint /\ store[j] # NoPoint) =>
           ~(store[i].path = store[j].path /\ store[i].chunk_index = store[j].chunk_index)

\* the files that are gone from the working tree and still have an entry
Deleted(m) == {p \in Entries(m) : fs[p] = Absent}

\* C8 as stated: after a run over the whole tree the manifest has no entry
\* for a deleted file and the ids of its former range are not in the store.
C8_DeletedFileSwept ==
  RunOk =>
    \A p \in Deleted(old_index) :
      /\ disk.files[p] = NoEntry
      /\ \A i \in EntryIds(old_index.files[p]) : Gone(i)

\* C8 amended: a run keeps the entry of a deleted file as it was, in memory
\* and in the manifest it saves, and no step of the run deletes or overwrites
\* a point of that entry's range.
C8_DeletedFileKept ==
  /\ [](RunOk => \A p \in Deleted(old_index) : disk.files[p] = old_index.files[p])
  /\ [][(pc # "idle" /\ pc' # "idle") =>
          \A p \in Deleted(file_index) :
            /\ file_index'.files[p] = file_index.files[p]
            /\ \A i \in EntryIds(file_index.files[p]) : store'[i] = store[i]]_vars

\* C8 witness: a run that issued store mutations has returned Ok while a
\* deleted file still has its entry and its points
C8_Witness ==
  /\ RunOk
  /\ mutated
  /\ \E p \in Deleted(disk) : \A i \in EntryIds(disk.files[p]) : Resolves(i, p, disk.files[p].hash)

\* the steps at which one file fails
PerFileFailure == {"metadata_err", "read_err", "extract_err", "embed_err", "upsert_err"}

\* C9: a failure that concerns a single file never makes index return an
\* error: the file is counted in files_skipped and the run goes on to
\* process the remaining files, save the manifest and return stats.
C9_PerFileFailureNotFatal ==
  /\ last.op \in PerFileFailure => (stats.files_skipped >= 1 /\ pc # "done")
  /\ (pc = "done" /\ fatal \notin {"delete", "save"}) =>
       (result = "ok" /\ walk = <<>> /\ files_to_index = <<>> /\ disk = file_index)

\* C10: a run that returns Ok has raised next_id by exactly the
\* chunks_created it reports; from an empty manifest next_id ends as the sum
\* of chunk_count over the entries; a run that re-indexes one changed file
\* raises next_id by that file's new chunk count.
C10_NextIdGrowsByChunks ==
  RunOk =>
    /\ file_index.next_id = old_index.next_id + stats.chunks_created
    /\ disk.next_id = file_index.next_id
    /\ old_index = FileIndexDefault => disk.next_id = SumCount(disk)
    /\ \A p \in PathSet :
         {q \in PathSet : disk.files[q] # old_index.files[q]} = {p} =>
           disk.next_id = old_index.next_id + disk.files[p].chunk_count

\* C10 witness: a run over an already indexed tree has returned Ok with two
\* or more chunks created
C10_Witness == RunOk /\ stats.chunks_created >= 2 /\ old_index.next_id > 0

\* C11: processing a queued zero-length file leaves the manifest (entries
\* and next_id) and the store as they were and adds no chunk to
\* chunks_created: no entry is created, no id consumed, no point upserted.
C11_EmptyFileNoEffect ==
  [][(pc = "process" /\ pc' # "idle" /\ fs[Head(files_to_index)[1]] = 0) =>
       /\ file_index' = file_index
       /\ store' = store
       /\ stats'.chunks_created = stats.chunks_created
       /\ last'.op \in {"empty", "extract_err"}]_vars

\* C11 witness: index_file has returned Ok(0) for a zero-length file that has
\* no entry, after another file of the run took ids
C11_Witness == last.op = "empty" /\ file_index.files[last.path] = NoEntry /\ file_index.next_id > old_index.next_id

\* the files that pass the extension filter and have this size
OfSize(n) == {p \in PathSet : fs[p] # Absent /\ should_index(Ext(p), ConfigDefault) /\ FileLen(fs[p]) = n}

\* the outcomes of a scan step that has gone past the size filter
PastSizeFilter == {"read_err", "unchanged", "changed", "delete_err", "new_file"}

\* C16: a file of exactly max_file_size bytes passes the size filter (it is
\* read and hashed, and a run without failures ends with its entry carrying
\* its hash); a file of max_file_size + 1 bytes is counted in files_skipped,
\* is not queued, and neither the store nor the manifest changes for it.
C16_SizeLimit ==
  /\ [](RunOk => \A p \in OfSize(DEFAULT_MAX_FILE_SIZE + 1) : disk.files[p] = old_index.files[p])
  /\ []((RunOk /\ ~failed /\ fatal = "none") => \A p \in OfSize(DEFAULT_MAX_FILE_SIZE) : disk.files[p].hash = Blake3(fs[p]))
  /\ [][(pc = "scan" /\ pc' # "idle" /\ last'.op # "metadata_err") =>
          /\ Head(walk) \in OfSize(DEFAULT_MAX_FILE_SIZE) => last'.op \in PastSizeFilter
          /\ Head(walk) \in OfSize(DEFAULT_MAX_FILE_SIZE + 1) =>
               /\ last'.op = "too_big"
               /\ stats'.files_skipped = stats.files_skipped + 1
               /\ store' = store
               /\ file_index' = file_index
               /\ files_to_index' = files_to_index]_vars

\* C16 witness: a run has returned Ok with one file of exactly the limit
\* indexed and one file, indexed before, now one byte over the limit
C16_Witness ==
  /\ RunOk
  /\ \E p \in OfSize(DEFAULT_MAX_FILE_SIZE) : disk.files[p].hash = Blake3(fs[p])
  /\ \E p \in OfSize(DEFAULT_MAX_FILE_SIZE + 1) : disk.files[p] # NoEntry

\* C20: when runs ended before the save after issuing store mutations for a
\* changed file, the next run over the same working tree that returns Ok
\* (no file of it failing) ends with a saved entry for the file that carries
\* its current hash and whose whole id range is in the store.
C20_InterruptedRunRecovered ==
  (RunOk /\ ~failed /\ fatal = "none") =>
    \A p \in interrupted :
      old_index.files[p] # NoEntry =>
        /\ disk.files[p].hash = Blake3(fs[p])
        /\ \A i \in EntryIds(disk.files[p]) : Resolves(i, p, disk.files[p].hash)

\* the bytes of the chunks c
Covered(cs) == UNION {cs[i].start .. (cs[i].end - 1) : i \in 1..Len(cs)}

\* C12: for a non-empty text (chunk_size >= 1) the chunks chunk_text returns
\* are byte ranges [s_i, e_i) of the text with s_0 = 0, s_(i+1) <= e_i, the
\* last e = len, so that their union is [0, len); the first chunk has
\* start_line 1; for the empty text the result is empty.
C12_ChunkTextCovers ==
  (call = "chunk_text" /\ ~ret.panic) =>
    LET cs == ret.chunks
        text == arg.text
    IN IF text = <<>> THEN cs = <<>>
       ELSE /\ Len(cs) >= 1
            /\ cs[1].start = 0
            /\ cs[1].start_line = 1
            /\ cs[Len(cs)].end = Len(text)
            /\ \A i \in 1..(Len(cs) - 1) : cs[i + 1].start <= cs[i].end
            /\ \A i \in 1..Len(cs) :
                 /\ 0 <= cs[i].start /\ cs[i].start <= cs[i].end /\ cs[i].end <= Len(text)
                 /\ cs[i].text = SubSeq(text, cs[i].start + 1, cs[i].end)
            /\ Covered(cs) = 0..(Len(text) - 1)

\* C12 witness: chunk_text has returned three or more chunks, two of them overlapping
C12_Witness ==
  /\ call = "chunk_text"
  /\ ~ret.panic
  /\ Len(ret.chunks) >= 3
  /\ ret.chunks[2].start < ret.chunks[1].end

\* C13: every chunk chunk_text returns is non-empty and at most chunk_size
\* bytes long; every chunk extract_chunks returns (syntax-derived, whole
\* file or re-split) is at most 2 x chunk_size bytes long.
C13_ChunkSizesBounded ==
  /\ (call = "chunk_text" /\ ~ret.panic) =>
       \A i \in 1..Len(ret.chunks) : Len(ret.chunks[i].text) >= 1 /\ Len(ret.chunks[i].text) <= arg.chunk_size
  /\ (call = "extract_chunks" /\ ~ret.panic) =>
       \A i \in 1..Len(ret.chunks) : Len(ret.chunks[i].text) <= 2 * arg.chunk_size

\* the selected nodes of the tree that are longer than twice chunk_size
Oversized == {i \in 1..Len(arg.tree.nodes) : arg.tree.nodes[i].end_byte - arg.tree.nodes[i].start_byte > 2 * arg.chunk_size}

\* C13 witness: extract_chunks has returned the chunks of a tree with one
\* node of exactly 2 x chunk_size bytes and one longer node, re-split
C13_Witness ==
  /\ call = "extract_chunks"
  /\ ~ret.panic
  /\ arg.tree.ok
  /\ Oversized # {}
  /\ \E i \in 1..Len(ret.chunks) : Len(ret.chunks[i].text) = 2 * arg.chunk_size

\* C14: the chunks extract_chunks and chunk_text return carry the index
\* values 0, 1, 2, ... of their places in the sequence, and every chunk has
\* 1 <= start_line <= end_line, also when some syntax-derived chunks are
\* re-split and others are not.
C14_IndexAndLines ==
  (call \in {"chunk_text", "extract_chunks"} /\ ~ret.panic) =>
    \A i \in 1..Len(ret.chunks) :
      /\ ret.chunks[i].index = i - 1
      /\ 1 <= ret.chunks[i].start_line
      /\ ret.chunks[i].start_line <= ret.chunks[i].end_line

\* C14 witness: extract_chunks has returned the chunks of a tree whose
\* first node was re-split and whose second node was not
C14_Witness ==
  /\ call = "extract_chunks"
  /\ ~ret.panic
  /\ arg.tree.ok
  /\ Len(arg.tree.nodes) = 2
  /\ Oversized = {1}
  /\ Len(ret.chunks) >= 3

\* the definition nodes of tree t
Defs(t) == {k \in 1..Len(t.parent) : t.def[k]}

\* the definition nodes that are direct children of the root
TopDefs(t) == {k \in Defs(t) : t.parent[k] = Root}

\* the definition nodes with no definition node among their proper ancestors
FirstGeneration(t) == {k \in Defs(t) : AncestorsOrSelf(t.parent, t.parent[k]) \cap Defs(t) = {}}

\* sequence q lists exactly the nodes of S, in source order
ListsInOrder(q, S) ==
  /\ {q[i] : i \in 1..Len(q)} = S
  /\ \A i \in 1..(Len(q) - 1) : q[i] < q[i + 1]

SameIgnoringCase(a, b) == to_lowercase(a) = to_lowercase(b)

\* ext is in the list, compared without regard to case
Listed(ext, list) == \E e \in list : SameIgnoringCase(e, ext)

\* C17: should_index compares extensions case-insensitively; it is false
\* when the extension is in exclude_extensions, even if it is also in
\* include_extensions; otherwise, with a non-empty include_extensions, true
\* exactly when the extension is in it; otherwise true exactly when the
\* extension is a known text extension.
C17_ShouldIndexDecision ==
  call = "should_index" =>
    /\ Listed(arg.ext, arg.config.exclude_extensions) => ret = FALSE
    /\ (~Listed(arg.ext, arg.config.exclude_extensions) /\ arg.config.include_extensions # {}) =>
         (ret = TRUE <=> Listed(arg.ext, arg.config.include_extensions))
    /\ (~Listed(arg.ext, arg.config.exclude_extensions) /\ arg.config.include_extensions = {}) =>
         (ret = TRUE <=> Listed(arg.ext, TEXT_EXTENSIONS))

\* C17 witness: should_index has rejected an extension that both lists
\* hold in another case than the path's
C17_Witness ==
  /\ call = "should_index"
  /\ arg.ext = "Rs"
  /\ arg.config.include_extensions = {"RS"}
  /\ arg.config.exclude_extensions = {"rs"}
  /\ ret = FALSE

\* path p and the paths above it
SelfAndAncestors(p) == {SubSeq(p, 1, k) : k \in 0..Len(p)}

\* the deepest of a non-empty set of paths that lie on one line of descent
Nearest(S) == CHOOSE d \in S : \A e \in S : Len(e) <= Len(d)

\* what the claim says find_qs_root returns for the path p
NearestRepo(p) ==
  LET found == {d \in SelfAndAncestors(p) : qs_path_is_dir(d, arg.world)}
  IN IF found = {} THEN Err("NotInRepo") ELSE Ok(Nearest(found))

FindReturned == call = "find_qs_root: returned"

\* C18 as stated: find_qs_root(start) returns the nearest directory among
\* start and its ancestors that holds the state directory, and NotInRepo
\* exactly when none of them does.
C18_NearestOfStart == FindReturned => ret = NearestRepo(arg.start)

\* C18 amended: find_qs_root(start) always returns; when start cannot be
\* canonicalized it returns that I/O error; otherwise it returns the nearest
\* directory among the canonical form of start and its ancestors that holds
\* the state directory, and NotInRepo exactly when none of them does.
C18_NearestOfCanonicalStart ==
  /\ <>FindReturned
  /\ [](FindReturned =>
          LET c == canonicalize(arg.start, arg.world)
          IN IF c.kind = "Ok" THEN ret = NearestRepo(c.path) ELSE ret = Err("Io"))

\* C18 witness: started through the symbolic link, find_qs_root has walked
\* up past a directory without .qs and returned a repository that has
\* another one above it
C18_Witness ==
  /\ FindReturned
  /\ ret.kind = "Ok"
  /\ IsPrefix(<<"b">>, arg.start)
  /\ Len(ret.path) < Len(canonicalize(arg.start, arg.world).path)
  /\ \E d \in arg.world.qs : Len(d) < Len(ret.path)

\* the extensions the specification lists, by language
ListedExtensions ==
  [Rust |-> {"rs"}, Python |-> {"py"}, JavaScript |-> {"js", "jsx", "mjs", "cjs"},
   TypeScript |-> {"ts", "tsx", "mts", "cts"}, Go |-> {"go"}, Java |-> {"java"},
   C |-> {"c", "h"}, Cpp |-> {"cpp", "cc", "cxx", "hpp", "hxx", "hh"}]

\* the same with the stub files of Python
ListedExtensionsAndPyi == [ListedExtensions EXCEPT !.Python = {"py", "pyi"}]

\* a grammar is selected only for the lowercased extensions the table
\* `listed` gives to it, and a file with an extension outside the table is
\* chunked by chunk_text
GrammarOnlyFor(listed) ==
  /\ (call = "from_extension" /\ ret # NoLanguage) =>
       (ret \in DOMAIN listed /\ to_lowercase(arg.ext) \in listed[ret])
  /\ (call = "extract_chunks" /\ \A l \in DOMAIN listed : to_lowercase(arg.ext) \notin listed[l]) =>
       ret = chunk_text(arg.text, arg.chunk_size, arg.overlap)

\* C19 as stated: language detection is by lowercased extension and selects
\* a grammar only for rs; py; js, jsx, mjs, cjs; ts, tsx, mts, cts; go; java;
\* c, h; cpp, cc, cxx, hpp, hxx, hh; a file with any other extension is chunked
\* by chunk_text and never by the syntax-tree extractor.
C19_GrammarOnlyForListed == GrammarOnlyFor(ListedExtensions)

\* C19 amended: the same with pyi selecting the Python grammar as py does.
C19_GrammarOnlyForListedAndPyi == GrammarOnlyFor(ListedExtensionsAndPyi)

\* C19 witness: extract_chunks has chunked a text under an extension without
\* grammar, three chunks or more
C19_Witness ==
  /\ call = "extract_chunks"
  /\ arg.ext = "Md"
  /\ ~ret.panic
  /\ Len(ret.chunks) >= 3

(* ------------------------------- C21 ----------------------------------- *)
\* the ids under which the shard holds a point
UpsertedIds == {i \in Ids : store[i] # NoPoint}

\* C21: an id that was assigned to a chunk and upserted in a run that stopped
\* before the manifest was saved is never assigned again by a later run to a
\* chunk of a different file: the next_id a later run starts from is greater
\* than every id upserted so far, and no upsert rewrites a point of the shard
\* with a chunk of another path.
C21_LeakedIdsNotReused ==
  /\ [](last.op = "new" => \A i \in UpsertedIds : i < file_index.next_id)
  /\ [][\A i \in Ids : (store[i] # NoPoint /\ store'[i] # NoPoint) => store'[i].path = store[i].path]_vars

(* ------------------------------- C22 ----------------------------------- *)
\* the step is index_file returning Err for the queued file p
IndexFileFailed(p) ==
  /\ pc = "process"
  /\ files_to_index # <<>>
  /\ p = Head(files_to_index)[1]
  /\ last'.op \in {"extract_err", "embed_err", "upsert_err"}

\* C22: when indexing a queued file fails (reading its text, embedding or
\* upserting returns an error), the manifest entry of that path, present or
\* absent, and next_id are what they were before the file was processed,
\* files_skipped is one more, and files_indexed and chunks_created are not
\* changed by that file.
C22_FailedFileLeavesManifest ==
  [][\A p \in PathSet : IndexFileFailed(p) =>
       /\ file_index'.files[p] = file_index.files[p]
       /\ file_index'.next_id = file_index.next_id
       /\ disk' = disk
       /\ stats'.files_skipped = stats.files_skipped + 1
       /\ stats'.files_indexed = stats.files_indexed
       /\ stats'.chunks_created = stats.chunks_created]_vars

\* C22 witness: the upsert of a file that has a manifest entry has failed
\* after another file of the run was indexed
C22_Witness ==
  /\ last.op = "upsert_err"
  /\ file_index.files[last.path] # NoEntry
  /\ stats.files_skipped = 1
  /\ stats.files_indexed = 1
  /\ file_index.next_id > old_index.next_id

(* ------------------------------- C23 ----------------------------------- *)
\* the paths whose manifest entry was written in the run
Written == {p \in PathSet : file_index.files[p] # old_index.files[p]}

RECURSIVE SumWrittenFrom(_)
SumWrittenFrom(p) ==
  IF p > NumPaths THEN 0
  ELSE (IF p \in Written THEN file_index.files[p].chunk_count ELSE 0) + SumWrittenFrom(p + 1)

\* C23: in every run files_indexed counts exactly the files whose manifest
\* entry was written in this run, and chunks_created is the sum of the
\* chunk_count of those entries; a file for which no entry was written is
\* never counted in files_indexed.
C23_IndexedCountsCommitted ==
  pc # "idle" =>
    /\ stats.files_indexed = Cardinality(Written)
    /\ stats.chunks_created = SumWrittenFrom(0)

(* ------------------------------- C25 ----------------------------------- *)
\* C25: a failure to save the manifest, a failure to flush the store, or a
\* failure to start the walk (the start path does not exist or cannot be
\* read) makes index return an error instead of stats.
C25_RunFailuresReturnErr ==
  (pc = "done" /\ fatal \in {"walk", "save", "flush"}) => result = "err"

(* ------------------------------- C24 ----------------------------------- *)
\* the step writes files.json
Saves == last'.op = "saved"

\* C24: in every run that returns successfully the manifest is saved exactly
\* once, after the last delete or upsert issued in the run and before the
\* store flush; no store mutation is issued after the save.  The save is the
\* one step from the save point to the flush, it is taken with the walker and
\* the queue exhausted, the flush and Ok(stats) are reached only through it,
\* and the store changes only in the two loops before it.
C24_SavedOnceBeforeFlush ==
  /\ []((pc \in {"save", "flush"} \/ (pc = "done" /\ result = "ok")) =>
          (walk = <<>> /\ files_to_index = <<>>))
  /\ []((pc = "done" /\ result = "ok") => disk = file_index)
  /\ [][Saves => (pc = "save" /\ pc' = "flush" /\ disk' = file_index /\ store' = store)]_vars
  /\ [][pc' = "flush" => Saves]_vars
  /\ [][pc = "flush" => (pc' = "done" /\ result' = "ok" /\ ~Saves /\ disk' = disk /\ store' = store)]_vars
  /\ [][(result' = "ok" /\ result # "ok") => pc = "flush"]_vars
  /\ [][pc = "done" => (pc' = "idle" /\ disk' = disk /\ store' = store)]_vars
  /\ [][store' # store => pc \in {"scan", "process"}]_vars
  /\ [][disk' # disk => Saves]_vars

\* C24 witness: a run that deleted an old range and upserted new points has
\* saved a new manifest, flushed and returned Ok
C24_Witness ==
  /\ pc = "done"
  /\ result = "ok"
  /\ last.op = "flushed"
  /\ disk # old_index
  /\ \E p \in issued : old_index.files[p] # NoEntry /\ disk.files[p] # old_index.files[p]

(* ------------------------------- C30 ----------------------------------- *)
\* where chunk_text starts the chunk that follows the chunk c
StartAfter(c) == IF arg.overlap < c.end - c.start THEN c.end - arg.overlap ELSE c.end

\* C30: in chunk_text, after emitting the chunk [cursor, end) the next chunk
\* starts at end - overlap when overlap < end - cursor and at end otherwise;
\* in particular, when chunk_overlap >= chunk_size every chunk starts exactly
\* where the previous one ended, so consecutive chunks share no byte.
C30_NextChunkStart ==
  (call = "chunk_text" /\ ~ret.panic) =>
    \A i \in 1..(Len(ret.chunks) - 1) :
      /\ ret.chunks[i + 1].start = StartAfter(ret.chunks[i])
      /\ arg.overlap >= arg.chunk_size => ret.chunks[i + 1].start = ret.chunks[i].end

\* C30 witness: chunk_text returned chunks of which one is followed by a
\* chunk that starts overlap bytes before its end and one by a chunk that
\* starts at its end
C30_Witness ==
  /\ call = "chunk_text"
  /\ ~ret.panic
  /\ arg.overlap > 0
  /\ \E i, j \in 1..(Len(ret.chunks) - 1) :
       /\ ret.chunks[i + 1].start = ret.chunks[i].end - arg.overlap
       /\ ret.chunks[j + 1].start = ret.chunks[j].end

(* ------------------------------- C28 ----------------------------------- *)
\* the 1-indexed line of the file on which the byte at offset i lies
LineOf(text, i) == Newlines(text, i) + 1

\* the byte ranges of the chunks the parser made of the file
ParserRanges ==
  LET parsed == parse_file(arg.ext, arg.text, arg.tree)
  IN IF call = "extract_chunks" /\ parsed.some
     THEN {<<parsed.chunks[i].start, parsed.chunks[i].end>> : i \in 1..Len(parsed.chunks)}
     ELSE {}

\* the returned chunks that chunk_text emitted: all of them but the chunks
\* of the parser that were not re-split
FromChunkText == {i \in 1..Len(ret.chunks) : <<ret.chunks[i].start, ret.chunks[i].end>> \notin ParserRanges}

\* C28: for every chunk emitted by chunk_text, and every sub-chunk produced
\* by re-splitting an oversized syntax chunk, [start_line, end_line] is the
\* 1-indexed inclusive range of the lines the chunk's text lies on:
\* start_line is the line of its first byte and end_line is the line of its
\* last byte.
C28_LinesOfFirstAndLastByte ==
  (call \in {"chunk_text", "extract_chunks"} /\ ~ret.panic) =>
    \A i \in FromChunkText :
      LET c == ret.chunks[i]
      IN /\ c.start < c.end
         /\ c.start_line = LineOf(arg.text, c.start)
         /\ c.end_line = LineOf(arg.text, c.end - 1)

(* ------------------------------- C29 ----------------------------------- *)
\* C29: for a file with a supported-language extension whose content is
\* non-empty but consists only of whitespace (its trimmed content is empty),
\* extract_chunks returns an empty sequence.
C29_WhitespaceOnlyNoChunks ==
  (/\ call = "extract_chunks"
   /\ from_extension(arg.ext) # NoLanguage
   /\ arg.text # <<>>
   /\ TrimIsEmpty(arg.text)) =>
    (~ret.panic /\ ret.chunks = <<>>)

(* ------------------------------- C27 ----------------------------------- *)
\* C27: chunk_text terminates for every text and every chunk_size and
\* overlap the configuration can hold (any non-negative integers, overlap >=
\* chunk_size included): the cursor strictly advances on every iteration and
\* the loop ends with a chunk whose end equals len.
C27_ChunkTextTerminates ==
  /\ [][(call = "while" /\ call' = "while") => local'.char_pos > local.char_pos]_vars
  /\ []((call = "chunk_text" /\ arg.text # <<>>) =>
          /\ ~ret.panic
          /\ ret.chunks # <<>>
          /\ ret.chunks[Len(ret.chunks)].end = Len(arg.text))

(* ------------------------------- C26 ----------------------------------- *)
\* the two processes have allocated the same id to different files, each
\* from its own copy of next_id, and both have saved their manifest
InterleavedAllocation ==
  /\ \A i \in Procs : local[i].pc = "flush"
  /\ \E p \in Entries(local[1].file_index), q \in Entries(local[2].file_index) :
       /\ p # q
       /\ EntryIds(local[1].file_index.files[p]) \cap EntryIds(local[2].file_index.files[q]) # {}

C31_ChunkIdsInOrder ==
  /\ [][last'.op = "indexed" =>
          LET p == last'.path
              e == file_index'.files[p]
          IN /\ e.chunk_count >= 1
             /\ e.start_id = file_index.next_id
             /\ \A k \in 0..(e.chunk_count - 1) :
                  store'[e.start_id + k] = ChunkPayload(p, k, e.hash)
             /\ \A i \in Ids \ EntryIds(e) : store'[i] = store[i]]_vars
  /\ [](pc # "idle" =>
          \A p \in Written, q \in Written :
            p < q => file_index.files[p].start_id + file_index.files[p].chunk_count <= file_index.files[q].start_id)

\* C31 witness: the second file of a run has been committed with two
\* chunks, after a first file of the same run
C31_Witness ==
  /\ last.op = "indexed"
  /\ Cardinality(Written) = 2
  /\ file_index.files[last.path].chunk_count = 2
  /\ old_index.next_id > 0

(* ------------------------------- C32 ----------------------------------- *)
\* the ids under which the run has upserted points so far
RunUpserted == UNION {EntryIds(file_index.files[p]) : p \in Written}

\* C32: for every file re-indexed in a run, the delete of its old id range
\* is issued before the upsert of its new points (when the upsert is issued
\* the delete has been, and no id of the old range holds a point), and no
\* delete issued in a run removes an id that was upserted earlier in the
\* same run.
C32_DeleteBeforeUpsert ==
  /\ [][(last'.op = "indexed" /\ old_index.files[last'.path] # NoEntry) =>
          /\ last'.path \in issued
          /\ \A i \in EntryIds(old_index.files[last'.path]) : store[i] = NoPoint]_vars
  /\ [][last'.op = "changed" =>
          /\ \A i \in EntryIds(old_index.files[last'.path]) : store'[i] = NoPoint
          /\ \A i \in RunUpserted : store'[i] = store[i]
          /\ \A i \in Ids \ EntryIds(old_index.files[last'.path]) : store'[i] = store[i]]_vars

\* C32 witness: a changed file with a two-chunk old range has been
\* re-indexed after another file of the run was committed
C32_Witness ==
  /\ last.op = "indexed"
  /\ old_index.files[last.path].chunk_count = 2
  /\ Cardinality(Written) = 2
  /\ \E i \in EntryIds(old_index.files[last.path]) : store[i] = NoPoint

(* ------------------------------- C33 ----------------------------------- *)
\* C33: whenever index returns stats, every scanned file is counted in
\* exactly one of the three outcome counters: files_scanned = files_indexed
\* + files_skipped + files_unchanged.
C33_ScannedIsSumOfOutcomes ==
  RunOk => stats.files_scanned = stats.files_indexed + stats.files_skipped + stats.files_unchanged

\* C33 witness: a run has returned stats with a skipped file, an unchanged
\* file and an indexed file
C33_Witness ==
  /\ RunOk
  /\ stats.files_indexed = 1
  /\ stats.files_skipped = 1
  /\ stats.files_unchanged = 1

(* ------------------------------- C34 ----------------------------------- *)
\* the files outside the start path of the run process i is in
Outside(i) == PathSet \ local[i].start

\* C34: index(sub_path) touches only files under sub_path: for every file
\* outside it, the manifest entry is unchanged (in the Indexer and in
\* files.json) and none of its points is deleted or overwritten, whatever
\* happens to the files inside sub_path.
C34_SubPathFrame ==
  [][\A i \in Procs : local[i].pc # "idle" =>
       \A q \in Outside(i) :
         /\ disk'.files[q] = disk.files[q]
         /\ local'[i].pc # "idle" => local'[i].file_index.files[q] = local[i].file_index.files[q]
         /\ \A id \in Ids : store[id].path = q => store'[id] = store[id]]_vars

(* ------------------------------- C35 ----------------------------------- *)
\* C35: every chunk emitted by chunk_text after the first contains at least
\* one byte that the preceding chunk does not contain: no chunk's byte range
\* lies entirely inside the preceding chunk's range, for any text,
\* chunk_size >= 1 and overlap.
C35_ChunkAddsBytes ==
  (call = "chunk_text" /\ ~ret.panic) =>
    \A i \in 1..(Len(ret.chunks) - 1) :
      ~(/\ ret.chunks[i].start <= ret.chunks[i + 1].start
        /\ ret.chunks[i + 1].end <= ret.chunks[i].end)

(* ------------------------------- C36 ----------------------------------- *)
\* C36: with the default configuration (empty include_extensions and
\* exclude_extensions), should_index accepts every extension for which
\* CodeLanguage::from_extension returns a grammar.
C36_GrammarExtensionsIndexed ==
  (call = "from_extension" /\ ret # NoLanguage) => should_index(arg.ext, ConfigDefault)

(* ----------------------- print_result (qs-cli) ------------------------- *)
\* print_result shows one search hit: the payload's line range with
\* context_lines lines around it, read from the file as it is on disk now.
\* All its numbers are usize.  Every value met here is far below 2^31, so a
\* usize is kept as an integer and a subtraction that wrapped is kept as its
\* negative difference d, standing for 2^64 + d.
MAX_DISPLAY_LINES == 12

HEAD_LINES == 5

TAIL_LINES == 3

\* greatest start_line and end_line of a stored payload
MaxLine == 14

\* greatest number of lines of the file on disk
MaxFileLines == 16

\* greatest context_lines
MaxContext == 2

\* in place of the number of lines: the file is gone or cannot be read as
\* UTF-8
NoFile == -1

\* a.saturating_sub(b)
saturating_sub(a, b) == IF a >= b THEN a - b ELSE 0

\* a <= b on usize, a or b possibly wrapped
UsizeLe(a, b) ==
  IF a < 0 THEN b < 0 /\ a <= b
  ELSE b < 0 \/ a <= b

\* lines[from..to]: the line numbers shown, or a panic when the range is
\* not within the slice
SliceLines(from, to, len) ==
  IF UsizeLe(from, to) /\ UsizeLe(to, len)
  THEN [panic |-> "none", shown |-> [i \in 1..(to - from) |-> from + i]]
  ELSE [panic |-> "slice", shown |-> <<>>]

\* let start = result.payload.start_line.saturating_sub(context_lines + 1)
print_result_start(start_line, context_lines) == saturating_sub(start_line, context_lines + 1)

\* print_result(result, context_lines) with the file holding len lines now
\* (NoFile: the stored text is shown); overflow_checks is the build's
\* setting: a debug build panics at a wrapping subtraction, a release build
\* wraps.
print_result(start_line, end_line, context_lines, len, overflow_checks) ==
  IF len = NoFile
  THEN [panic |-> "none", source |-> "stored", start |-> 0, end |-> 0, total_lines |-> 0, shown |-> <<>>, hidden_lines |-> 0]
  ELSE
    LET start == print_result_start(start_line, context_lines)
        end == Min(end_line + context_lines, len)
        total_lines == end - start
        out(panic, shown, hidden) ==
          [panic |-> panic, source |-> "file", start |-> start, end |-> end, total_lines |-> total_lines, shown |-> shown, hidden_lines |-> hidden]
    IN IF end < start /\ overflow_checks
       THEN out("subtract", <<>>, 0)
       ELSE IF UsizeLe(total_lines, MAX_DISPLAY_LINES)
       THEN LET all == SliceLines(start, end, len)
            IN out(all.panic, all.shown, 0)
       ELSE
         LET head_end == start + HEAD_LINES
             tail_start == end - TAIL_LINES
             hidden_lines == total_lines - HEAD_LINES - TAIL_LINES
             head == SliceLines(start, head_end, len)
             tail == SliceLines(tail_start, end, len)
         IN IF end < TAIL_LINES /\ overflow_checks THEN out("subtract", <<>>, 0)
            ELSE IF head.panic # "none" THEN out(head.panic, <<>>, hidden_lines)
            ELSE IF tail.panic # "none" THEN out(tail.panic, head.shown, hidden_lines)
            ELSE out("none", head.shown \o tail.shown, hidden_lines)

\* a hit of the search: a payload the indexer stored (1 <= start_line <=
\* end_line), the --context value, and the file as it is now
PrintInit ==
  /\ IndexerInit
  /\ call = "none"
  /\ \E start_line \in 1..MaxLine, context_lines \in 0..MaxContext, len \in (0..MaxFileLines) \cup {NoFile}, overflow_checks \in BOOLEAN :
       \E end_line \in start_line..MaxLine :
         arg = [start_line |-> start_line, end_line |-> end_line, context_lines |-> context_lines, len |-> len, overflow_checks |-> overflow_checks]
  /\ local = <<>>
  /\ ret = <<>>

CallPrintResult ==
  /\ call = "none"
  /\ call' = "print_result"
  /\ ret' = print_result(arg.start_line, arg.end_line, arg.context_lines, arg.len, arg.overflow_checks)
  /\ UNCHANGED <<indexer, arg, local>>

NextPrint == CallPrintResult

SpecPrint == PrintInit /\ [][NextPrint]_vars

(* ------------------------------- C37 ----------------------------------- *)
\* C37: displaying a search result never fails on index arithmetic: for
\* every stored payload (start_line, end_line), every context_lines and every
\* current line count of the file, a file shorter than start_line included,
\* print_result computes start <= end <= number of lines before slicing,
\* with no unsigned underflow and no out-of-range slice.
C37_PrintResultArithmetic ==
  (call = "print_result" /\ arg.len # NoFile) =>
    /\ ret.panic = "none"
    /\ ret.start <= ret.end
    /\ ret.end <= arg.len

====
